---------------------------- MODULE Spec2Model ----------------------------
(***************************************************************************)
(* A model of romeo-gemini-pdf: the play parser (src/parser.py), the       *)
(* checkpointed, chunking translation loop of main() (src/main.py) and the *)
(* two renderers (src/pdf_generator_weasyprint.py, src/pdf_generator.py).  *)
(*                                                                         *)
(* Python strings are TLA+ strings, read character by character with       *)
(* SubSeq; Python's None is the value None below.                          *)
(***************************************************************************)
EXTENDS Naturals, Sequences, FiniteSets, TLC

VARIABLES
    pc,               \* position of the running procedure
    file,             \* the lines of the source file, in order
    source_exists,    \* whether DATA_FILE exists
    line_num,         \* parse_play: number of lines consumed so far
    current_speaker,  \* parse_play: the speaker context
    play_structure,   \* the element sequence (parse_play's list, main's list)
    result,           \* parse_play: the returned value
    checkpoint,       \* CHECKPOINT_FILE: whether it exists, and the list pickled in it
    index,            \* main: the cursor of the translation loop (from 0)
    indices_in_chunk, \* main: the indices (from 0) of the chunk being handled
    next_index_after_chunk,
    translated_chunks_in_session,
    api_errors,
    response,         \* main: what the last model.generate_content call gave
    resumed,          \* whether this run loaded play_structure from the checkpoint
    loaded,           \* play_structure as it was when the translation loop began
    chunks,           \* the chunks submitted for translation in this run, in order
    runs,             \* how many times the program has been started
    unusual_responses,\* how many calls the service answered otherwise than
                      \* with its usual text, over all runs
    html_parts,       \* create_pdf_weasyprint: the parts made of the elements
    story             \* create_side_by_side_pdf: the flowables made of them

parser_vars == <<line_num, current_speaker, result>>

loop_vars == <<index, indices_in_chunk, next_index_after_chunk,
               translated_chunks_in_session, api_errors, response>>

history_vars == <<resumed, loaded, chunks>>

render_vars == <<html_parts, story>>

vars == <<pc, file, source_exists, play_structure, checkpoint, runs,
          unusual_responses, parser_vars, loop_vars, history_vars, render_vars>>

(***************************************************************************)
(* Bounds of the model.                                                    *)
(***************************************************************************)
\* The longest file given to the parser alone (SpecParse).
MaxParseLines == 3

\* The longest source file given to main, LongFile apart (Spec).
MaxFileLines == 3

\* How many times the program is started on the same files.
MaxRuns == 2

\* How many calls of the translation service, over all runs, are answered
\* otherwise than with UsualResponse: a failure, a blank text, a text that
\* reads like a sentinel.
MaxUnusualResponses == 1

(***************************************************************************)
(* Python values and string functions.                                     *)
(***************************************************************************)
None == "<None>"

Upper == {"A", "B", "C", "D", "E", "F", "G", "H", "I", "J", "K", "L", "M",
          "N", "O", "P", "Q", "R", "S", "T", "U", "V", "W", "X", "Y", "Z"}

Lower == {"a", "b", "c", "d", "e", "f", "g", "h", "i", "j", "k", "l", "m",
          "n", "o", "p", "q", "r", "s", "t", "u", "v", "w", "x", "y", "z"}

Whitespace == {" ", "\t", "\n", "\r"}

Ch(s, i) == SubSeq(s, i, i)

\* not x, for x a string or None
Falsy(x) == x = None \/ x = ""

RECURSIVE lstrip(_)
lstrip(s) ==
    IF Len(s) > 0 /\ Ch(s, 1) \in Whitespace THEN lstrip(SubSeq(s, 2, Len(s))) ELSE s

RECURSIVE rstrip(_)
rstrip(s) ==
    IF Len(s) > 0 /\ Ch(s, Len(s)) \in Whitespace
    THEN rstrip(SubSeq(s, 1, Len(s) - 1)) ELSE s

\* str.strip()
strip(s) == rstrip(lstrip(s))

\* str.startswith(p)
startswith(s, p) == Len(s) >= Len(p) /\ SubSeq(s, 1, Len(p)) = p

\* str.endswith(p)
endswith(s, p) == Len(s) >= Len(p) /\ SubSeq(s, Len(s) - Len(p) + 1, Len(s)) = p

\* str.isupper(): at least one cased character, and no lower-case one
isupper(s) ==
    /\ \E i \in 1..Len(s) : Ch(s, i) \in Upper
    /\ \A i \in 1..Len(s) : Ch(s, i) \notin Lower

(***************************************************************************)
(* parse_play: the checks made once per line.                              *)
(***************************************************************************)
stage_direction_keywords == {"Enter ", "Exit ", "Exeunt", "Re-enter "}

is_bracketed(stripped_line) ==
    \/ startswith(stripped_line, "[") /\ endswith(stripped_line, "]")
    \/ startswith(stripped_line, "(") /\ endswith(stripped_line, ")")

starts_with_keyword(stripped_line) ==
    \E keyword \in stage_direction_keywords : startswith(stripped_line, keyword)

\* What group(1) of ^([A-Z][A-Z\s]{1,})(\.?)$ is on a line with an optional
\* trailing period: everything before that period.
speaker_group(stripped_line) ==
    IF endswith(stripped_line, ".")
    THEN SubSeq(stripped_line, 1, Len(stripped_line) - 1)
    ELSE stripped_line

\* A pattern without \s: a name of one word only.
is_likely_speaker_one_word(stripped_line) ==
    LET g == IF endswith(stripped_line, ".")
             THEN SubSeq(stripped_line, 1, Len(stripped_line) - 1)
             ELSE stripped_line IN
    /\ Len(g) >= 2
    /\ \A i \in 1..Len(g) : Ch(g, i) \in Upper

\* A pattern with {0,} for {1,}: a name of one letter matches.
is_likely_speaker_one_or_more(stripped_line) ==
    LET g == IF endswith(stripped_line, ".")
             THEN SubSeq(stripped_line, 1, Len(stripped_line) - 1)
             ELSE stripped_line IN
    /\ Len(g) >= 1
    /\ Ch(g, 1) \in Upper
    /\ \A i \in 2..Len(g) : Ch(g, i) \in Upper \cup Whitespace

\* re.match(speaker_regex, stripped_line) is not None
is_likely_speaker(stripped_line) ==
    LET g == speaker_group(stripped_line) IN
    /\ Len(g) >= 2
    /\ Ch(g, 1) \in Upper
    /\ \A i \in 2..Len(g) : Ch(g, i) \in Upper \cup Whitespace

\* The checkpoint file before the first save.
NoCheckpoint == [exists |-> FALSE, loadable |-> FALSE, data |-> <<>>]

\* A checkpoint file that pickle.load cannot read.
CorruptCheckpoint == [exists |-> TRUE, loadable |-> FALSE, data |-> <<>>]

\* pickle.dump(data, f) into CHECKPOINT_FILE
save_checkpoint(data) == [exists |-> TRUE, loadable |-> TRUE, data |-> data]

\* A load that lets the exception of pickle.load out.
load_checkpoint_uncaught(cp) ==
    [raised |-> cp.exists /\ ~cp.loadable,
     is_None |-> ~cp.exists,
     data |-> IF cp.exists /\ cp.loadable THEN cp.data ELSE <<>>]

\* load_checkpoint(filepath): the pickled list, or None when the file is
\* absent or pickle.load raises
load_checkpoint(cp) ==
    [raised |-> FALSE,
     is_None |-> ~(cp.exists /\ cp.loadable),
     data |-> IF cp.exists /\ cp.loadable THEN cp.data ELSE <<>>]

\* A handler that returns what was built before the exception.
exception_result_partial(built) == built

\* except Exception: ... return []
exception_result(built) == <<>>

\* No call of the translation service has been made yet.
NoResponse == [exc |-> None, parts |-> FALSE, text |-> "", block_reason |-> None]

Element(type, original, translated) ==
    [type |-> type, original |-> original, translated |-> translated]

\* The parser's loop state: the speaker context and the list built so far.
ParseState(speaker, structure) ==
    [current_speaker |-> speaker, play_structure |-> structure]

(***************************************************************************)
(* parse_play: the branches of the classification chain.                   *)
(***************************************************************************)
heading_branch(stripped_line, st) ==
    ParseState(None,
               Append(st.play_structure, Element("heading", stripped_line, None)))

\* A scene marker that keeps the speaker context.
scene_marker_branch_noreset(stripped_line, st) ==
    ParseState(st.current_speaker,
               Append(st.play_structure,
                      Element("scene_marker", stripped_line, None)))

scene_marker_branch(stripped_line, st) ==
    ParseState(None,
               Append(st.play_structure,
                      Element("scene_marker", stripped_line, None)))

\* A general-heading test that forgets the speaker pattern.
is_general_heading_nolookahead(stripped_line) == isupper(stripped_line)

is_general_heading(stripped_line) ==
    isupper(stripped_line) /\ ~is_likely_speaker(stripped_line)

is_stage_direction(stripped_line) ==
    \/ is_bracketed(stripped_line)
    \/ starts_with_keyword(stripped_line) /\ ~is_likely_speaker(stripped_line)

\* A speaker branch that stores the whole line, its period included.
speaker_branch_whole_line(stripped_line, st) ==
    LET new_speaker_name == strip(speaker_group(stripped_line)) IN
    IF new_speaker_name # st.current_speaker
    THEN ParseState(new_speaker_name,
                    Append(st.play_structure,
                           Element("speaker", stripped_line, None)))
    ELSE st

\* A speaker branch that never suppresses a repeated name.
speaker_branch_nosuppress(stripped_line, st) ==
    LET new_speaker_name == strip(speaker_group(stripped_line)) IN
    ParseState(new_speaker_name,
               Append(st.play_structure,
                      Element("speaker", new_speaker_name, None)))

speaker_branch(stripped_line, st) ==
    LET new_speaker_name == strip(speaker_group(stripped_line)) IN
    IF new_speaker_name # st.current_speaker
    THEN ParseState(new_speaker_name,
                    Append(st.play_structure,
                           Element("speaker", new_speaker_name, None)))
    ELSE st

\* One iteration of the loop over the file's lines.
parse_line(line, st) ==
    LET stripped_line == strip(line) IN
    IF stripped_line = "" THEN st
    ELSE IF stripped_line = "THE PROLOGUE"
    THEN heading_branch(stripped_line, st)
    ELSE IF startswith(stripped_line, "ACT ") \/ startswith(stripped_line, "SCENE ")
    THEN scene_marker_branch(stripped_line, st)
    ELSE IF is_general_heading(stripped_line)
    THEN heading_branch(stripped_line, st)
    ELSE IF is_stage_direction(stripped_line)
    THEN ParseState(st.current_speaker,
                    Append(st.play_structure,
                           Element("stage_direction", stripped_line, "")))
    ELSE IF is_likely_speaker(stripped_line)
    THEN speaker_branch(stripped_line, st)
    ELSE IF ~Falsy(st.current_speaker)
    THEN ParseState(st.current_speaker,
                    Append(st.play_structure,
                           Element("dialogue", stripped_line, "")))
    ELSE ParseState(st.current_speaker,
                    Append(st.play_structure,
                           Element("unknown", stripped_line, None)))

(***************************************************************************)
(* The parser, line by line.                                               *)
(***************************************************************************)
ParseLines ==
    {"THE PROLOGUE", "ACT I", "SCENE I.", "[EXIT]", "A", "A.", "ENTER ROMEO",
     "ENTER A, B", "Enter ROMEO", "[Exit]", "(Aside)", "ROMEO", " ROMEO.\n",
     "JULIET", "Hello.", " \t\n"}

SeqsUpTo(S, n) == UNION {[1..k -> S] : k \in 0..n}

InitParse ==
    /\ pc = "parse"
    /\ source_exists \in BOOLEAN
    /\ file \in IF source_exists THEN SeqsUpTo(ParseLines, MaxParseLines)
                ELSE {<<>>}
    /\ line_num = 0
    /\ current_speaker = None
    /\ play_structure = <<>>
    /\ result = <<>>
    /\ checkpoint = NoCheckpoint
    /\ html_parts = <<>>
    /\ story = <<>>
    /\ index = 0
    /\ indices_in_chunk = <<>>
    /\ next_index_after_chunk = 0
    /\ translated_chunks_in_session = 0
    /\ api_errors = 0
    /\ response = NoResponse
    /\ resumed = FALSE
    /\ loaded = <<>>
    /\ chunks = <<>>
    /\ runs = 1
    /\ unusual_responses = 0

\* for line_num, line in enumerate(f, 1): ... (one line)
ParseLine ==
    /\ pc = "parse"
    /\ source_exists
    /\ line_num < Len(file)
    /\ LET st == parse_line(file[line_num + 1],
                            ParseState(current_speaker, play_structure)) IN
       /\ current_speaker' = st.current_speaker
       /\ play_structure' = st.play_structure
    /\ line_num' = line_num + 1
    /\ UNCHANGED <<pc, file, source_exists, render_vars,
                   result, checkpoint, runs, unusual_responses,
                   loop_vars, history_vars>>

\* return play_structure
ParseReturn ==
    /\ pc = "parse"
    /\ source_exists
    /\ line_num = Len(file)
    /\ pc' = "returned"
    /\ result' = play_structure
    /\ UNCHANGED <<file, source_exists, render_vars,
                   line_num, current_speaker, play_structure, checkpoint,
                   runs, unusual_responses, loop_vars, history_vars>>

\* except Exception: return [] (reading or decoding the next line fails)
ParseException ==
    /\ pc = "parse"
    /\ source_exists
    /\ line_num < Len(file)
    /\ pc' = "failed"
    /\ result' = exception_result(play_structure)
    /\ UNCHANGED <<file, source_exists, render_vars,
                   line_num, current_speaker, play_structure, checkpoint,
                   runs, unusual_responses, loop_vars, history_vars>>

\* if not os.path.exists(filepath): raise FileNotFoundError
ParseFileNotFound ==
    /\ pc = "parse"
    /\ ~source_exists
    /\ pc' = "notfound"
    /\ UNCHANGED <<file, source_exists, render_vars, line_num, current_speaker,
                   play_structure, result, checkpoint, runs, unusual_responses,
                   loop_vars, history_vars>>

NextParse == ParseLine \/ ParseReturn \/ ParseException \/ ParseFileNotFound

SpecParse == InitParse /\ [][NextParse]_vars

(***************************************************************************)
(* The parser's claims, checked under SpecParse.                           *)
(***************************************************************************)
\* A step of the parser's loop over one line of the file.
ParseLineStep == pc = "parse" /\ line_num' = line_num + 1

\* The line such a step consumes, trimmed.
StepLine == strip(file[line_num + 1])

\* Rule k of the classification chain, on a trimmed line s with context ctx.
C1_Rule(k, s, ctx) ==
    CASE k = 1 -> s = "THE PROLOGUE"
      [] k = 2 -> startswith(s, "ACT ") \/ startswith(s, "SCENE ")
      [] k = 3 -> isupper(s) /\ ~is_likely_speaker(s)
      [] k = 4 -> \/ is_bracketed(s)
                  \/ starts_with_keyword(s) /\ ~is_likely_speaker(s)
      [] k = 5 -> is_likely_speaker(s)
      [] k = 6 -> ctx # None
      [] k = 7 -> TRUE

C1_FirstRule(s, ctx) ==
    CHOOSE k \in 1..7 : C1_Rule(k, s, ctx) /\ \A j \in 1..(k - 1) : ~C1_Rule(j, s, ctx)

C1_Kind(k) ==
    CASE k = 1 -> "heading"
      [] k = 2 -> "scene_marker"
      [] k = 3 -> "heading"
      [] k = 4 -> "stage_direction"
      [] k = 5 -> "speaker"
      [] k = 6 -> "dialogue"
      [] k = 7 -> "unknown"

\* The speaker line s repeats the name of the active context.
RedundantSpeaker(s, ctx) ==
    C1_FirstRule(s, ctx) = 5 /\ strip(speaker_group(s)) = ctx

\* C1: every line the parser consumes adds, at the end of the list, exactly
\* one element whose kind is that of the first rule of the chain 1..7 that
\* matches the trimmed line, except that a blank line and a redundant speaker
\* line add nothing; and what parse_play returns after the last line is the
\* list so built.
C1_FirstMatchClassification ==
    /\ [][ParseLineStep =>
            IF StepLine = "" \/ RedundantSpeaker(StepLine, current_speaker)
            THEN play_structure' = play_structure
            ELSE /\ Len(play_structure') = Len(play_structure) + 1
                 /\ SubSeq(play_structure', 1, Len(play_structure)) = play_structure
                 /\ play_structure'[Len(play_structure')].type =
                        C1_Kind(C1_FirstRule(StepLine, current_speaker))]_vars
    /\ [](pc = "returned" => line_num = Len(file) /\ result = play_structure)

\* A file of a blank line, a bracketed all-caps line (rules 3 and 4 both
\* match: heading) and a speaker line has been parsed into two elements.
C1_Witness ==
    /\ pc = "returned"
    /\ Len(file) = 3
    /\ \E i \in 1..3 : strip(file[i]) = ""
    /\ Len(result) = 2
    /\ result[1] = Element("heading", "[EXIT]", None)
    /\ result[2].type = "speaker"

\* C9: a speaker line whose trimmed name is the active context adds no
\* element and keeps the context; one with another name adds one speaker
\* element of that name and makes it the context.  The lines ROMEO, ROMEO,
\* Hello. give speaker(ROMEO), dialogue(Hello.).
C9_SpeakerSuppression ==
    /\ [][ParseLineStep /\ StepLine # ""
              /\ C1_FirstRule(StepLine, current_speaker) = 5 =>
            LET name == strip(speaker_group(StepLine)) IN
            IF name = current_speaker
            THEN /\ play_structure' = play_structure
                 /\ current_speaker' = current_speaker
            ELSE /\ play_structure' =
                        Append(play_structure, Element("speaker", name, None))
                 /\ current_speaker' = name]_vars
    /\ [](pc = "returned" /\ file = <<"ROMEO", "ROMEO", "Hello.">> =>
            result = <<Element("speaker", "ROMEO", None),
                       Element("dialogue", "Hello.", "")>>)

\* The name ROMEO, repeated with a period and surrounding blanks, was
\* suppressed, and the line after it is ROMEO's dialogue.
C9_Witness ==
    /\ pc = "returned"
    /\ file = <<"ROMEO", " ROMEO.\n", "Hello.">>
    /\ Len(result) = 2
    /\ result[2].type = "dialogue"

\* Every dialogue element has a speaker element before it, with no heading
\* and no scene marker between the two.
DialogueUnderSpeaker(ps) ==
    \A j \in 1..Len(ps) :
        ps[j].type = "dialogue" =>
            \E i \in 1..(j - 1) :
                /\ ps[i].type = "speaker"
                /\ \A k \in (i + 1)..(j - 1) :
                       ps[k].type \notin {"heading", "scene_marker"}

\* C10: a heading or scene-marker line sets the speaker context to none;
\* with no context, a line that matches none of rules 1-5 becomes unknown and
\* a speaker line always adds a speaker element; so every dialogue element
\* has a speaker element before it with no heading or scene marker between.
C10_HeadingResetsContext ==
    /\ [][ParseLineStep /\ StepLine # ""
              /\ C1_FirstRule(StepLine, current_speaker) \in {1, 2, 3} =>
            current_speaker' = None]_vars
    /\ [][ParseLineStep /\ StepLine # "" /\ current_speaker = None =>
            LET k == C1_FirstRule(StepLine, current_speaker)
                last == play_structure'[Len(play_structure')]
            IN  /\ Len(play_structure') = Len(play_structure) + 1
                /\ k >= 6 => last.type = "unknown"
                /\ k = 5 => last = Element("speaker",
                                           strip(speaker_group(StepLine)), None)]_vars
    /\ []DialogueUnderSpeaker(play_structure)

\* ROMEO spoke, a scene marker reset the context, and ROMEO's name on the
\* next line gave a second speaker element.
C10_Witness ==
    /\ pc = "returned"
    /\ file = <<"ROMEO", "ACT I", "ROMEO">>
    /\ result = <<Element("speaker", "ROMEO", None),
                  Element("scene_marker", "ACT I", None),
                  Element("speaker", "ROMEO", None)>>

\* The line is made of upper-case letters and whitespace only, one trailing
\* period apart, and begins with a letter.
CapsAndSpacesOnly(s) ==
    LET body == IF Len(s) > 0 /\ Ch(s, Len(s)) = "."
                THEN SubSeq(s, 1, Len(s) - 1) ELSE s IN
    /\ Len(body) >= 1
    /\ Ch(body, 1) \in Upper
    /\ \A i \in 1..Len(body) : Ch(body, i) \in Upper \cup Whitespace

\* The name such a line gives: the line without its period and the
\* whitespace before it.
NameOf(s) ==
    rstrip(IF Len(s) > 0 /\ Ch(s, Len(s)) = "."
           THEN SubSeq(s, 1, Len(s) - 1) ELSE s)

\* An all-caps line that starts with ENTER and a space.
AllCapsEnter(s) == isupper(s) /\ startswith(s, "ENTER ")

\* What the original C21 says: an all-caps line that starts with 'ENTER '
\* adds a heading element and resets the speaker context to none.
C21_AllCapsEnterIsHeading ==
    [][ParseLineStep /\ AllCapsEnter(StepLine) =>
          /\ play_structure' =
                 Append(play_structure, Element("heading", StepLine, None))
          /\ current_speaker' = None]_vars

\* C21 (amended): an all-caps line that starts with 'ENTER ' is never a
\* stage direction.  When it is made of upper-case letters and whitespace
\* only (one trailing period apart), as 'ENTER ROMEO' is, it is a speaker
\* line: its name becomes the speaker context, and a speaker element of that
\* name is added unless the name is the context already.  Otherwise, as
\* 'ENTER A, B', it is a general heading and resets the context to none.
C21_AllCapsEnterIsSpeakerOrHeading ==
    [][ParseLineStep /\ AllCapsEnter(StepLine) =>
          IF CapsAndSpacesOnly(StepLine)
          THEN /\ current_speaker' = NameOf(StepLine)
               /\ play_structure' =
                      IF NameOf(StepLine) = current_speaker THEN play_structure
                      ELSE Append(play_structure,
                                  Element("speaker", NameOf(StepLine), None))
          ELSE /\ current_speaker' = None
               /\ play_structure' =
                      Append(play_structure,
                             Element("heading", StepLine, None))]_vars

\* The lines ENTER ROMEO, Hello. were parsed: a speaker and their dialogue.
C21_Witness ==
    /\ pc = "returned"
    /\ file = <<"ENTER ROMEO", "Hello.", "ENTER A, B">>
    /\ result = <<Element("speaker", "ENTER ROMEO", None),
                  Element("dialogue", "Hello.", ""),
                  Element("heading", "ENTER A, B", None)>>

\* The line is left to the rules after the first two: it is not the
\* prologue's title and does not begin an act or a scene.
PastMarkerRules(s) ==
    /\ s # "THE PROLOGUE"
    /\ ~startswith(s, "ACT ")
    /\ ~startswith(s, "SCENE ")

\* The number of characters of such a line before its trailing period.
NameLength(s) ==
    IF Len(s) > 0 /\ Ch(s, Len(s)) = "." THEN Len(s) - 1 ELSE Len(s)

\* The step handles the line s as a speaker line of rule 5.
HandledAsSpeaker(s) ==
    /\ current_speaker' = NameOf(s)
    /\ play_structure' =
           IF NameOf(s) = current_speaker THEN play_structure
           ELSE Append(play_structure, Element("speaker", NameOf(s), None))

\* The step handles the line s as a general heading of rule 3.
HandledAsHeading(s) ==
    /\ current_speaker' = None
    /\ play_structure' = Append(play_structure, Element("heading", s, None))

\* What the original C22 says: every line of one or more upper-case letters
\* or spaces that starts with a letter, one trailing period apart, is a
\* speaker line; a single upper-case letter too.
C22_OneOrMoreCharactersIsSpeaker ==
    [][ParseLineStep /\ PastMarkerRules(StepLine)
           /\ CapsAndSpacesOnly(StepLine) =>
          HandledAsSpeaker(StepLine)]_vars

\* C22 (amended): the speaker pattern accepts every line made of two or
\* more characters that are all upper-case letters or spaces, start with an
\* upper-case letter, and are optionally followed by one trailing period; a
\* line of a single upper-case letter, with or without the period, does not
\* match it and is classified as a general heading (rule 3), which resets
\* the speaker context.
C22_TwoOrMoreCharactersIsSpeaker ==
    [][ParseLineStep /\ PastMarkerRules(StepLine)
           /\ CapsAndSpacesOnly(StepLine) =>
          IF NameLength(StepLine) >= 2
          THEN HandledAsSpeaker(StepLine)
          ELSE HandledAsHeading(StepLine)]_vars

\* The lines A, ROMEO., A. were parsed: the single letters are headings,
\* the longer name a speaker.
C22_Witness ==
    /\ pc = "returned"
    /\ file = <<"A", " ROMEO.\n", "A.">>
    /\ result = <<Element("heading", "A", None),
                  Element("speaker", "ROMEO", None),
                  Element("heading", "A.", None)>>

(***************************************************************************)
(* main: the translation loop's helpers.  Indices are Python's (from 0):   *)
(* play_structure[i] is ps[i + 1] here.                                    *)
(***************************************************************************)
CHECKPOINT_INTERVAL == 10

PLACEHOLDER == "[Translated as part of previous chunk]"

\* A scan that looks at the element just before idx only.
speaker_before_one_back(ps, idx) ==
    IF idx <= 0 THEN None
    ELSE IF ps[idx].type = "speaker" THEN ps[idx].original
    ELSE None

\* for i in range(idx - 1, -1, -1): the nearest 'speaker' element before idx
RECURSIVE speaker_before(_, _)
speaker_before(ps, idx) ==
    IF idx <= 0 THEN None
    ELSE IF ps[idx].type = "speaker" THEN ps[idx].original
    ELSE speaker_before(ps, idx - 1)

\* A test that forgets to look at the translated field.
needs_translation_always(element) ==
    element.type \in {"dialogue", "stage_direction"}

\* A test that forgets the stage directions.
needs_translation_dialogue_only(element) ==
    element.type = "dialogue" /\ Falsy(element.translated)

\* A test that forgets to look at the element's type.
needs_translation_any_type(element) == Falsy(element.translated)

needs_translation(element) ==
    element.type \in {"dialogue", "stage_direction"} /\ Falsy(element.translated)

\* A chunk test that takes translated lines along.
continues_chunk_any(next_element, next_speaker, chunk_speaker) ==
    next_element.type = "dialogue" /\ next_speaker = chunk_speaker

\* Conditions to continue chunk: same type, same speaker, not already translated
continues_chunk(next_element, next_speaker, chunk_speaker) ==
    /\ next_element.type = "dialogue"
    /\ next_speaker = chunk_speaker
    /\ Falsy(next_element.translated)

\* while j < total_elements: ... ; gives indices_in_chunk and the final j
RECURSIVE gather_chunk(_, _, _, _)
gather_chunk(ps, j, chunk_speaker, acc) ==
    IF j < Len(ps)
    THEN LET next_element == ps[j + 1]
             next_speaker == IF next_element.type = "dialogue"
                             THEN speaker_before(ps, j) ELSE None
         IN  IF continues_chunk(next_element, next_speaker, chunk_speaker)
             THEN gather_chunk(ps, j + 1, chunk_speaker, Append(acc, j))
             ELSE [indices_in_chunk |-> acc, next_index_after_chunk |-> j]
    ELSE [indices_in_chunk |-> acc, next_index_after_chunk |-> j]

\* The chunk built for the element at idx, which needs translation.
build_chunk(ps, idx) ==
    IF ps[idx + 1].type = "dialogue"
    THEN gather_chunk(ps, idx, speaker_before(ps, idx), <<>>)
    ELSE [indices_in_chunk |-> <<idx>>, next_index_after_chunk |-> idx + 1]

SeqRange(q) == {q[k] : k \in 1..Len(q)}

(***************************************************************************)
(* main: the translation service and the handling of its response.         *)
(***************************************************************************)
Response(exc, parts, text, block_reason) ==
    [exc |-> exc, parts |-> parts, text |-> text, block_reason |-> block_reason]

ExceptionNames == {"DeadlineExceeded"}

BlockReasons == {"SAFETY"}

ResponseTexts ==
    {" Yo.\n", " \n", PLACEHOLDER, "[Translation Error: Empty Response]"}

Responses ==
    {Response(e, FALSE, "", None) : e \in ExceptionNames}
    \cup {Response(None, TRUE, t, None) : t \in ResponseTexts}
    \cup {Response(None, FALSE, "", b) : b \in BlockReasons}
    \cup {Response(None, FALSE, "", None)}

\* What the service answers when nothing goes wrong.
UsualResponse == Response(None, TRUE, " Yo.\n", None)

translation_successful(r) == r.exc = None /\ r.parts

error_message(r) ==
    IF r.exc # None THEN "[Translation Error: " \o r.exc \o "]"
    ELSE IF ~Falsy(r.block_reason)
    THEN "[Translation Blocked: " \o r.block_reason \o "]"
    ELSE "[Translation Error: Empty Response]"

\* A store that counts the elements from 1: it writes one element early.
store_translation_from_one(ps, chunk, full_translation) ==
    [k \in 1..Len(ps) |->
        IF k = chunk[1]
        THEN [ps[k] EXCEPT !.translated = full_translation]
        ELSE IF k \in SeqRange(Tail(chunk))
        THEN [ps[k] EXCEPT !.translated = PLACEHOLDER]
        ELSE ps[k]]

\* A store that writes the text on every element of the chunk.
store_translation_all(ps, chunk, full_translation) ==
    [k \in 1..Len(ps) |->
        IF k - 1 \in SeqRange(chunk)
        THEN [ps[k] EXCEPT !.translated = full_translation]
        ELSE ps[k]]

\* Store full translation on the first element, mark the subsequent ones
store_translation(ps, chunk, full_translation) ==
    [k \in 1..Len(ps) |->
        IF k - 1 = chunk[1]
        THEN [ps[k] EXCEPT !.translated = full_translation]
        ELSE IF k - 1 \in SeqRange(Tail(chunk))
        THEN [ps[k] EXCEPT !.translated = PLACEHOLDER]
        ELSE ps[k]]

\* A store that marks only the chunk's first element.
store_error_first(ps, chunk, message) ==
    [k \in 1..Len(ps) |->
        IF k - 1 = chunk[1]
        THEN [ps[k] EXCEPT !.translated = message]
        ELSE ps[k]]

\* If translation failed, mark all elements in chunk with error
store_error(ps, chunk, message) ==
    [k \in 1..Len(ps) |->
        IF k - 1 \in SeqRange(chunk)
        THEN [ps[k] EXCEPT !.translated = message]
        ELSE ps[k]]

\* A test that leaves every save to the end of the pass.
checkpoint_due_never(count) == FALSE

\* if translated_chunks_in_session > 0 and
\*    translated_chunks_in_session % CHECKPOINT_INTERVAL == 0
checkpoint_due(count) == count > 0 /\ count % CHECKPOINT_INTERVAL = 0

\* A loop that gives up at the first failed chunk.
index_after_handling_abort(ps, next_idx, ok) == IF ok THEN next_idx ELSE Len(ps)

\* A loop that returns to the chunk's last element after a failed call.
index_after_handling_stay(ps, next_idx, ok) ==
    IF ok THEN next_idx ELSE next_idx - 1

\* index = next_index_after_chunk, whatever the call's outcome
index_after_handling(ps, next_idx, ok) == next_idx

(***************************************************************************)
(* The renderers.  A part of the HTML is written as the record of its tag, *)
(* its class and the text between the tags; a flowable of the ReportLab    *)
(* story as the record of its kind and its table of paragraphs.            *)
(***************************************************************************)
\* html.escape(s)
RECURSIVE html_escape(_)
html_escape(s) ==
    IF s = "" THEN ""
    ELSE LET c == Ch(s, 1) IN
         (CASE c = "&" -> "&amp;"
            [] c = "<" -> "&lt;"
            [] c = ">" -> "&gt;"
            [] c = "\"" -> "&quot;"
            [] c = "'" -> "&#x27;"
            [] OTHER -> c) \o html_escape(SubSeq(s, 2, Len(s)))

\* original_text.replace('_', '')
RECURSIVE remove_underscores(_)
remove_underscores(s) ==
    IF s = "" THEN ""
    ELSE (IF Ch(s, 1) = "_" THEN "" ELSE Ch(s, 1))
         \o remove_underscores(SubSeq(s, 2, Len(s)))

\* str.split(sep), sep one character
RECURSIVE split(_, _)
split(s, sep) ==
    IF \E i \in 1..Len(s) : Ch(s, i) = sep
    THEN LET i == CHOOSE i \in 1..Len(s) :
                      Ch(s, i) = sep /\ \A k \in 1..(i - 1) : Ch(s, k) # sep
         IN  <<SubSeq(s, 1, i - 1)>> \o split(SubSeq(s, i + 1, Len(s)), sep)
    ELSE <<s>>

\* element.get('translated', '') or ""
raw_translated_text(element) ==
    IF Falsy(element.translated) THEN "" ELSE element.translated

is_error_translation(raw) == startswith(raw, "[Translation")

is_placeholder_translation(raw) == raw = PLACEHOLDER

Part(tag, class, text) == [tag |-> tag, class |-> class, text |-> text]

\* A loop that stops after the first line that has text.
line_parts_first_only(lines, k) ==
    LET texts == {m \in k..Len(lines) : strip(lines[m]) # ""} IN
    IF texts = {} THEN <<>>
    ELSE <<[tag |-> "p", class |-> None,
            text |-> html_escape(strip(lines[CHOOSE m \in texts :
                                                \A n \in texts : m <= n]))]>>

\* for line in lines: a paragraph of the stripped, escaped line; a blank line
\* among several is a paragraph of a non-breaking space
RECURSIVE line_parts(_, _)
line_parts(lines, k) ==
    IF k > Len(lines) THEN <<>>
    ELSE LET stripped_line == strip(lines[k]) IN
         (IF stripped_line # "" THEN <<Part("p", None, html_escape(stripped_line))>>
          ELSE IF Len(lines) > 1 THEN <<Part("p", None, "&nbsp;")>>
          ELSE <<>>) \o line_parts(lines, k + 1)

\* The right column of a dialogue pair.
col_right(raw) ==
    IF is_placeholder_translation(raw)
    THEN <<Part("p", "placeholder", "&nbsp;")>>
    ELSE IF is_error_translation(raw)
    THEN <<Part("p", "error", html_escape(raw))>>
    ELSE line_parts(split(raw, "\n"), 1)

\* create_pdf_weasyprint: the parts appended for one element
html_of_element(element) ==
    LET el_type == element.type
        original_text == IF el_type = "stage_direction"
                         THEN remove_underscores(element.original)
                         ELSE element.original
        raw == raw_translated_text(element)
    IN  CASE el_type = "heading" ->
                 <<Part("h1", "heading", html_escape(original_text))>>
          [] el_type = "scene_marker" ->
                 <<Part("h2", "scenemarker", html_escape(original_text))>>
          [] el_type = "speaker" ->
                 <<Part("p", "speaker", html_escape(original_text))>>
          [] el_type = "stage_direction" ->
                 <<Part("p", "direction", html_escape(original_text))>>
          [] el_type = "dialogue" ->
                 <<Part("div", "dialogue-pair", None),
                   Part("div", "col-left", None)>>
                 \o line_parts(split(original_text, "\n"), 1)
                 \o <<Part("/div", None, None), Part("div", "col-right", None)>>
                 \o col_right(raw)
                 \o <<Part("/div", None, None), Part("/div", None, None)>>
          [] OTHER -> <<>>

\* for index, element in enumerate(play_structure): ...
RECURSIVE create_pdf_weasyprint(_)
create_pdf_weasyprint(ps) ==
    IF ps = <<>> THEN <<>>
    ELSE html_of_element(Head(ps)) \o create_pdf_weasyprint(Tail(ps))

Paragraph(text, style) == [text |-> text, style |-> style]

Flowable(kind, table_data) == [flowable |-> kind, table_data |-> table_data]

Spacer == Flowable("Spacer", <<>>)

\* styles['ErrorText'] if translated_text.startswith('[Translation')
trans_style(translated_text) ==
    IF startswith(translated_text, "[Translation") THEN "ErrorText"
    ELSE "TranslatedText"

\* A table that cuts both texts in two halves, one row for each.
dialogue_table_data_split(original_text, translated_text) ==
    LET half(t) == Len(t) \div 2
        style == trans_style(translated_text)
    IN  <<<<Paragraph(SubSeq(original_text, 1, half(original_text)),
                      "OriginalText"),
            Paragraph(SubSeq(translated_text, 1, half(translated_text)),
                      style)>>,
          <<Paragraph(SubSeq(original_text, half(original_text) + 1,
                             Len(original_text)), "OriginalText"),
            Paragraph(SubSeq(translated_text, half(translated_text) + 1,
                             Len(translated_text)), style)>>>>

\* table_data = [[p_orig, p_trans]]
dialogue_table_data(original_text, translated_text) ==
    <<<<Paragraph(original_text, "OriginalText"),
        Paragraph(translated_text, trans_style(translated_text))>>>>

\* create_side_by_side_pdf: the flowables appended for play_structure[index]
flowables_of_element(ps, idx) ==
    LET element == ps[idx + 1]
        el_type == element.type
        original_text == element.original
        translated_text == raw_translated_text(element)
    IN  CASE el_type = "heading" ->
                 <<Flowable("Paragraph",
                            <<<<Paragraph(original_text, "Heading")>>>>),
                   Spacer>>
          [] el_type = "scene_marker" ->
                 <<Flowable("Paragraph",
                            <<<<Paragraph(original_text, "SceneMarker")>>>>),
                   Spacer>>
          [] el_type = "speaker" ->
                 (IF idx > 0 /\ ps[idx].type \notin
                                      {"heading", "scene_marker", "speaker"}
                  THEN <<Spacer>> ELSE <<>>)
                 \o <<Flowable("Paragraph",
                               <<<<Paragraph(original_text, "Speaker")>>>>)>>
          [] el_type = "dialogue" ->
                 <<Flowable("Table",
                            dialogue_table_data(original_text, translated_text)),
                   Spacer>>
          [] el_type = "stage_direction" ->
                 <<Spacer,
                   Flowable("Paragraph",
                            <<<<Paragraph(remove_underscores(original_text),
                                          "StageDirectionCentered")>>>>),
                   Spacer>>
          [] OTHER -> <<>>

\* for index, element in enumerate(play_structure): ...
RECURSIVE story_from(_, _)
story_from(ps, idx) ==
    IF idx >= Len(ps) THEN <<>>
    ELSE flowables_of_element(ps, idx) \o story_from(ps, idx + 1)

create_side_by_side_pdf(ps) == story_from(ps, 0)

(***************************************************************************)
(* main, step by step.                                                     *)
(***************************************************************************)
MainLines == {"ROMEO", "JULIET", "Hi.", "[Exit]", "ACT I"}

\* A play of CHECKPOINT_INTERVAL chunks of one line each, and then a chunk of
\* two lines: the shortest kind of run that reaches the periodic checkpoint
\* with work left.
LongFile ==
    <<"ROMEO">>
    \o [k \in 1..CHECKPOINT_INTERVAL |-> IF k % 2 = 1 THEN "Hi." ELSE "[Exit]"]
    \o <<"Hi.", "Hi.">>

MainFiles == SeqsUpTo(MainLines, MaxFileLines) \cup {LongFile}

LoopStart ==
    /\ index' = 0
    /\ indices_in_chunk' = <<>>
    /\ next_index_after_chunk' = 0
    /\ translated_chunks_in_session' = 0
    /\ api_errors' = 0
    /\ response' = NoResponse

Init ==
    /\ pc = "start"
    /\ source_exists \in BOOLEAN
    /\ file \in IF source_exists THEN MainFiles ELSE {<<>>}
    /\ line_num = 0
    /\ current_speaker = None
    /\ play_structure = <<>>
    /\ result = <<>>
    /\ checkpoint \in {NoCheckpoint, CorruptCheckpoint}
    /\ html_parts = <<>>
    /\ story = <<>>
    /\ index = 0
    /\ indices_in_chunk = <<>>
    /\ next_index_after_chunk = 0
    /\ translated_chunks_in_session = 0
    /\ api_errors = 0
    /\ response = NoResponse
    /\ resumed = FALSE
    /\ loaded = <<>>
    /\ chunks = <<>>
    /\ runs = 1
    /\ unusual_responses = 0

\* play_structure = load_checkpoint(CHECKPOINT_FILE); parse when there is none
Start ==
    /\ pc = "start"
    /\ LET loaded_structure == load_checkpoint(checkpoint) IN
       IF loaded_structure.raised
       THEN /\ play_structure' = <<>>
            /\ resumed' = FALSE
            /\ loaded' = <<>>
            /\ pc' = "exit"
            /\ UNCHANGED parser_vars
       ELSE IF ~loaded_structure.is_None
       THEN /\ play_structure' = loaded_structure.data
            /\ resumed' = TRUE
            /\ loaded' = loaded_structure.data
            /\ pc' = "loop"
            /\ UNCHANGED parser_vars
       ELSE /\ play_structure' = <<>>
            /\ resumed' = FALSE
            /\ loaded' = <<>>
            /\ pc' = "parse"
            /\ line_num' = 0
            /\ current_speaker' = None
            /\ result' = <<>>
    /\ LoopStart
    /\ chunks' = <<>>
    /\ UNCHANGED <<file, source_exists, render_vars, checkpoint, runs,
                   unusual_responses>>

\* except FileNotFoundError: return; if not play_structure: return; else
\* save the initial checkpoint
AfterParse ==
    /\ pc \in {"returned", "failed", "notfound"}
    /\ IF pc = "notfound" \/ result = <<>>
       THEN /\ pc' = "exit"
            /\ play_structure' = <<>>
            /\ UNCHANGED <<checkpoint, loaded>>
       ELSE /\ pc' = "loop"
            /\ play_structure' = result
            /\ checkpoint' = save_checkpoint(result)
            /\ loaded' = result
    /\ UNCHANGED <<file, source_exists, render_vars,
                   runs, unusual_responses, parser_vars, loop_vars,
                   resumed, chunks>>

\* while index < total_elements: an element that needs no translation
SkipElement ==
    /\ pc = "loop"
    /\ index < Len(play_structure)
    /\ ~needs_translation(play_structure[index + 1])
    /\ index' = index + 1
    /\ UNCHANGED <<pc, file, source_exists, render_vars,
                   play_structure, checkpoint, runs,
                   unusual_responses, parser_vars, indices_in_chunk, next_index_after_chunk,
                   translated_chunks_in_session, api_errors, response,
                   history_vars>>

\* while index < total_elements: gather the chunk and build the prompt
BuildChunk ==
    /\ pc = "loop"
    /\ index < Len(play_structure)
    /\ needs_translation(play_structure[index + 1])
    /\ LET c == build_chunk(play_structure, index) IN
       /\ indices_in_chunk' = c.indices_in_chunk
       /\ next_index_after_chunk' = c.next_index_after_chunk
    /\ pc' = "call"
    /\ UNCHANGED <<file, source_exists, render_vars,
                   play_structure, checkpoint, runs, unusual_responses,
                   parser_vars, index,
                   translated_chunks_in_session, api_errors, response,
                   history_vars>>

\* model.generate_content(prompt_text), the response's handling, the periodic
\* checkpoint and the cursor's advance
TranslateChunk ==
    /\ pc = "call"
    /\ \E r \in Responses :
         /\ r = UsualResponse \/ unusual_responses < MaxUnusualResponses
         /\ unusual_responses' = IF r = UsualResponse THEN unusual_responses
                                 ELSE unusual_responses + 1
         /\ LET ok == translation_successful(r)
                new_structure ==
                    IF ok
                    THEN store_translation(play_structure, indices_in_chunk,
                                           strip(r.text))
                    ELSE store_error(play_structure, indices_in_chunk,
                                     error_message(r))
                count == IF ok THEN translated_chunks_in_session + 1
                         ELSE translated_chunks_in_session
            IN  /\ response' = r
                /\ play_structure' = new_structure
                /\ translated_chunks_in_session' = count
                /\ api_errors' = IF ok THEN api_errors ELSE api_errors + 1
                /\ checkpoint' =
                       IF checkpoint_due(count)
                       THEN save_checkpoint(new_structure) ELSE checkpoint
                /\ index' = index_after_handling(play_structure,
                                                 next_index_after_chunk, ok)
    /\ chunks' = Append(chunks, indices_in_chunk)
    /\ pc' = "loop"
    /\ UNCHANGED <<file, source_exists, render_vars,
                   runs, parser_vars, indices_in_chunk,
                   next_index_after_chunk, resumed, loaded>>

\* The loop's end: save the final state if work was done
FinishPass ==
    /\ pc = "loop"
    /\ index >= Len(play_structure)
    /\ checkpoint' = IF translated_chunks_in_session > 0
                     THEN save_checkpoint(play_structure) ELSE checkpoint
    /\ pc' = "done"
    /\ UNCHANGED <<file, source_exists, render_vars,
                   play_structure, runs, unusual_responses, parser_vars,
                   loop_vars, history_vars>>

\* 4. PDF Generation: create_pdf_weasyprint(play_structure, ...)
GeneratePDF ==
    /\ pc = "done"
    /\ play_structure # <<>>
    /\ html_parts' = create_pdf_weasyprint(play_structure)
    /\ pc' = "rendered"
    /\ UNCHANGED <<file, source_exists, story, play_structure, checkpoint, runs,
                   unusual_responses, parser_vars, loop_vars, history_vars>>

\* The process starts again; only the files survive.
Restart ==
    /\ runs < MaxRuns
    /\ runs' = runs + 1
    /\ pc' = "start"
    /\ play_structure' = <<>>
    /\ line_num' = 0
    /\ current_speaker' = None
    /\ result' = <<>>
    /\ LoopStart
    /\ resumed' = FALSE
    /\ loaded' = <<>>
    /\ chunks' = <<>>
    /\ html_parts' = <<>>
    /\ UNCHANGED <<file, source_exists, story, checkpoint, unusual_responses>>

\* The process is killed during the translation loop or before the PDF is
\* generated, and started again.
Interrupt == pc \in {"loop", "call", "done"} /\ Restart

\* The program is run again after a run that ended.
Rerun == pc \in {"rendered", "exit"} /\ Restart

Next ==
    \/ Start
    \/ ParseLine
    \/ ParseReturn
    \/ ParseException
    \/ ParseFileNotFound
    \/ AfterParse
    \/ SkipElement
    \/ BuildChunk
    \/ TranslateChunk
    \/ FinishPass
    \/ GeneratePDF
    \/ Interrupt
    \/ Rerun

Spec == Init /\ [][Next]_vars

\* One run of main that is left to run: it is not killed, and a step of the
\* translation loop that can be taken is taken in the end (every call of the
\* service returns or raises).
NextPass ==
    \/ Start
    \/ ParseLine
    \/ ParseReturn
    \/ ParseException
    \/ ParseFileNotFound
    \/ AfterParse
    \/ SkipElement
    \/ BuildChunk
    \/ TranslateChunk
    \/ FinishPass
    \/ GeneratePDF

LoopStep == SkipElement \/ BuildChunk \/ TranslateChunk \/ FinishPass

SpecPass == Init /\ [][NextPass]_vars /\ WF_vars(LoopStep)

(***************************************************************************)
(* The renderers alone, on the element sequences a translation pass can    *)
(* leave behind.                                                           *)
(***************************************************************************)
\* The longest element sequence given to the renderers alone (SpecRender).
MaxRenderElements == 2

\* What a dialogue element's translated field can hold: nothing yet, the
\* stripped text of a response (of one line, of several lines), the
\* placeholder, an error sentinel.
GenuineTexts == {"Yo.", "Yo, <b>\n\n  it's & so."}

ErrorSentinels ==
    {"[Translation Error: Empty Response]", "[Translation Blocked: SAFETY]"}

RenderElements ==
    {Element("heading", "THE PROLOGUE", None),
     Element("scene_marker", "ACT I", None),
     Element("speaker", "ROMEO", None),
     Element("unknown", "Hi.", None)}
    \cup {Element("stage_direction", "[_Exit._]", t) :
            t \in {"", "He leaves."} \cup ErrorSentinels}
    \cup {Element("dialogue", o, t) :
            o \in {"Hi.", "Is't <so> & \"so\"?"},
            t \in {"", PLACEHOLDER} \cup GenuineTexts \cup ErrorSentinels}

InitRender ==
    /\ pc = "done"
    /\ play_structure \in SeqsUpTo(RenderElements, MaxRenderElements) \ {<<>>}
    /\ source_exists = TRUE
    /\ file = <<>>
    /\ line_num = 0
    /\ current_speaker = None
    /\ result = <<>>
    /\ checkpoint = save_checkpoint(play_structure)
    /\ index = Len(play_structure)
    /\ indices_in_chunk = <<>>
    /\ next_index_after_chunk = 0
    /\ translated_chunks_in_session = 0
    /\ api_errors = 0
    /\ response = NoResponse
    /\ resumed = TRUE
    /\ loaded = play_structure
    /\ chunks = <<>>
    /\ runs = 1
    /\ unusual_responses = 0
    /\ html_parts = <<>>
    /\ story = <<>>

\* create_side_by_side_pdf(play_structure, output_filepath), the other renderer
BuildStory ==
    /\ pc = "done"
    /\ story' = create_side_by_side_pdf(play_structure)
    /\ pc' = "built"
    /\ UNCHANGED <<file, source_exists, html_parts, play_structure, checkpoint,
                   runs, unusual_responses, parser_vars, loop_vars,
                   history_vars>>

NextRender == GeneratePDF \/ BuildStory

SpecRender == InitRender /\ [][NextRender]_vars

(***************************************************************************)
(* The translation loop's claims, checked under Spec.                      *)
(***************************************************************************)
\* A step that submits the chunk, handles the response and moves the cursor.
TranslateStep == pc = "call" /\ pc' = "loop"

\* The speaker an element at index i (from 0) is derived to have: the
\* original text of the nearest speaker element before it, or None.
DerivedSpeaker(ps, i) ==
    LET before == {k \in 1..i : ps[k].type = "speaker"} IN
    IF before = {} THEN None
    ELSE ps[CHOOSE k \in before : \A m \in before : m <= k].original

\* The parser and the loop's scan together, checked under SpecParse.
\* The speaker context a single forward pass threads to the element after
\* the first n of ps: a speaker element sets it, a heading or a scene marker
\* resets it, any other element leaves it.
RECURSIVE ThreadedSpeaker(_, _)
ThreadedSpeaker(ps, n) ==
    IF n = 0 THEN None
    ELSE IF ps[n].type = "speaker" THEN ps[n].original
    ELSE IF ps[n].type \in {"heading", "scene_marker"} THEN None
    ELSE ThreadedSpeaker(ps, n - 1)

\* C23: when the parser classifies a line as dialogue, the backward scan of
\* the translation loop from the new element finds the parser's speaker
\* context of that moment; and in every sequence parse_play returns, the
\* backward scan and the forward-threaded context (which headings and scene
\* markers reset) agree at every dialogue element.
C23_BackwardScanIsParserContext ==
    /\ [][ParseLineStep /\ Len(play_structure') = Len(play_structure) + 1
              /\ play_structure'[Len(play_structure')].type = "dialogue" =>
             /\ current_speaker # None
             /\ speaker_before(play_structure', Len(play_structure))
                    = current_speaker]_vars
    /\ [](pc = "returned" =>
             \A i \in 1..Len(result) :
                 result[i].type = "dialogue" =>
                     speaker_before(result, i - 1)
                         = ThreadedSpeaker(result, i - 1))

\* A sequence was returned in which a speaker's second line of dialogue
\* follows the first: the scan passes it and finds the speaker.
C23_Witness ==
    /\ pc = "returned"
    /\ result = <<Element("speaker", "ROMEO", None),
                  Element("dialogue", "Hello.", ""),
                  Element("dialogue", "Hello.", "")>>
    /\ speaker_before(result, 2) = "ROMEO"

\* A step of the loop that builds a chunk from a dialogue element.
BuildDialogueChunkStep ==
    /\ pc = "loop"
    /\ pc' = "call"
    /\ play_structure[index + 1].type = "dialogue"

\* C24: two adjacent dialogue elements always have the same derived
\* speaker, and a dialogue chunk is the run of untranslated dialogue elements
\* from the cursor up to the first element that is not dialogue or is already
\* translated, or up to the end: the comparison of speakers never ends it.
C24_SpeakerComparisonNeverEndsChunk ==
    /\ [](\A j \in 1..(Len(play_structure) - 1) :
              play_structure[j].type = "dialogue"
                  /\ play_structure[j + 1].type = "dialogue" =>
              speaker_before(play_structure, j - 1)
                  = speaker_before(play_structure, j))
    /\ [][BuildDialogueChunkStep =>
             LET ps == play_structure
                 j == next_index_after_chunk'
                 Ends(m) == \/ ps[m + 1].type # "dialogue"
                            \/ ~Falsy(ps[m + 1].translated)
             IN  /\ j \in (index + 1)..Len(ps)
                 /\ indices_in_chunk' = [k \in 1..(j - index) |-> index + k - 1]
                 /\ \A m \in index..(j - 1) : ~Ends(m)
                 /\ j = Len(ps) \/ Ends(j)]_vars

\* A chunk of two adjacent lines of dialogue under one speaker was built.
C24_Witness ==
    /\ pc = "call"
    /\ indices_in_chunk = <<1, 2>>
    /\ play_structure[1].type = "speaker"
    /\ play_structure[2].type = "dialogue"
    /\ play_structure[3].type = "dialogue"

\* The sequence after differs from the sequence before in nothing but the
\* translated fields of dialogue and stage-direction elements.
OnlyTranslationsChanged(before, after) ==
    /\ Len(after) = Len(before)
    /\ \A k \in 1..Len(before) :
           /\ after[k].type = before[k].type
           /\ after[k].original = before[k].original
           /\ before[k].type \notin {"dialogue", "stage_direction"} =>
                  /\ before[k].translated = None
                  /\ after[k].translated = None

\* C25: the translation pass changes nothing but the translated field of
\* dialogue and stage_direction elements.  Every step of the loop, and so the
\* whole pass from the sequence it began with, leaves the sequence's length
\* and order, every type and original, and the null translated value of the
\* heading, scene_marker, speaker and unknown elements as they were.
C25_PassChangesTranslationsOnly ==
    /\ [][(pc \in {"loop", "call"}) /\ (pc' \in {"loop", "call", "done"}) =>
             OnlyTranslationsChanged(play_structure, play_structure')]_vars
    /\ [](pc \in {"loop", "call", "done", "rendered"} =>
             OnlyTranslationsChanged(loaded, play_structure))

\* A pass has ended that translated a speaker's line and left the speaker
\* element and an unknown line as they were.
C25_Witness ==
    /\ pc = "done"
    /\ play_structure # loaded
    /\ \E k \in 1..Len(play_structure) :
           /\ play_structure[k].type = "dialogue"
           /\ play_structure[k].translated # loaded[k].translated
    /\ \E k \in 1..Len(play_structure) : play_structure[k].type = "speaker"
    /\ \E k \in 1..Len(play_structure) : play_structure[k].type = "unknown"

\* The element at index j (from 0) cannot follow the dialogue at i in a chunk.
C2_Breaks(ps, i, j) ==
    \/ ps[j + 1].type # "dialogue"
    \/ DerivedSpeaker(ps, j) # DerivedSpeaker(ps, i)
    \/ ps[j + 1].translated \notin {"", None}

\* The first index after i that breaks the chunk, or the sequence's end.
C2_ChunkEnd(ps, i) ==
    CHOOSE j \in (i + 1)..Len(ps) :
        /\ j = Len(ps) \/ C2_Breaks(ps, i, j)
        /\ \A m \in (i + 1)..(j - 1) : ~C2_Breaks(ps, i, m)

\* C2: the chunk built at an untranslated dialogue element i is exactly
\* i..j-1, j being the first later index that is not dialogue, or has another
\* derived speaker, or is already translated (or the end); the chunk built at
\* an untranslated stage direction is {i}.  No chunk mixes dialogue with
\* another kind, two derived speakers, or holds a translated element.
C2_ChunkShape ==
    pc = "call" =>
        LET i == index
            first == play_structure[i + 1]
            n == Len(indices_in_chunk)
        IN  /\ first.type \in {"dialogue", "stage_direction"}
            /\ first.type = "dialogue" =>
                  /\ n = C2_ChunkEnd(play_structure, i) - i
                  /\ \A k \in 1..n : indices_in_chunk[k] = i + k - 1
                  /\ next_index_after_chunk = C2_ChunkEnd(play_structure, i)
            /\ first.type = "stage_direction" =>
                  /\ indices_in_chunk = <<i>>
                  /\ next_index_after_chunk = i + 1
            /\ \A k \in 1..n :
                  LET e == play_structure[indices_in_chunk[k] + 1] IN
                  /\ e.type = first.type
                  /\ e.translated = ""
                  /\ DerivedSpeaker(play_structure, indices_in_chunk[k])
                         = DerivedSpeaker(play_structure, i)

\* A chunk of one dialogue line was built because the next dialogue line of
\* the same speaker is already translated.
C2_Witness ==
    /\ pc = "call"
    /\ indices_in_chunk = <<index>>
    /\ play_structure[index + 1].type = "dialogue"
    /\ index + 2 <= Len(play_structure)
    /\ play_structure[index + 2].type = "dialogue"
    /\ play_structure[index + 2].translated # ""

\* The indices (from 0) of the dialogue and stage-direction elements.
TranslatableIndices(ps) ==
    {i \in 0..(Len(ps) - 1) : ps[i + 1].type \in {"dialogue", "stage_direction"}}

\* The indices (from 0) of the elements that need translation.
NeedingIndices(ps) ==
    {i \in TranslatableIndices(ps) : ps[i + 1].translated \in {"", None}}

\* How many of the submitted chunks hold index i.
TimesSubmitted(i) == Cardinality({c \in 1..Len(chunks) : i \in SeqRange(chunks[c])})

\* C3: when the pass began with no element translated, at its end the
\* submitted chunks are pairwise disjoint and their union is exactly the set
\* of indices of the dialogue and stage-direction elements.
C3_ChunksPartition ==
    pc = "done" /\ NeedingIndices(loaded) = TranslatableIndices(loaded) =>
        /\ \A a, b \in 1..Len(chunks) :
               a # b => SeqRange(chunks[a]) \cap SeqRange(chunks[b]) = {}
        /\ \A c \in 1..Len(chunks) : Cardinality(SeqRange(chunks[c])) = Len(chunks[c])
        /\ UNION {SeqRange(chunks[c]) : c \in 1..Len(chunks)}
               = TranslatableIndices(play_structure)

\* A fresh pass over the long play ended: ten chunks of one line and a last
\* chunk of two lines.
C3_Witness ==
    /\ pc = "done"
    /\ ~resumed
    /\ file = LongFile
    /\ Len(chunks) = CHECKPOINT_INTERVAL + 1
    /\ Len(chunks[Len(chunks)]) = 2

\* What the original C4 says: the returned text itself is what the chunk's
\* first element holds after a successful call.
C4_FullTextStored ==
    [][TranslateStep /\ translation_successful(response') =>
          /\ play_structure'[indices_in_chunk[1] + 1].translated = response'.text
          /\ \A k \in 2..Len(indices_in_chunk) :
                 play_structure'[indices_in_chunk[k] + 1].translated = PLACEHOLDER]_vars

\* C4 (amended): when the call for a chunk succeeds, the returned text with
\* its leading and trailing whitespace stripped is stored on the chunk's
\* first element, every other element of the chunk gets the placeholder
\* sentinel, and no element outside the chunk changes.
C4_StrippedTextOnFirst ==
    [][TranslateStep /\ translation_successful(response') =>
          /\ play_structure'[indices_in_chunk[1] + 1].translated
                 = strip(response'.text)
          /\ \A k \in 2..Len(indices_in_chunk) :
                 play_structure'[indices_in_chunk[k] + 1].translated = PLACEHOLDER
          /\ \A i \in 1..Len(play_structure) :
                 i - 1 \notin SeqRange(indices_in_chunk) =>
                     play_structure'[i] = play_structure[i]
          /\ Len(play_structure') = Len(play_structure)]_vars

\* A chunk of two lines was translated: the text on the first, the
\* placeholder on the second.
C4_Witness ==
    /\ pc = "loop"
    /\ translation_successful(response)
    /\ Len(indices_in_chunk) = 2
    /\ play_structure[indices_in_chunk[1] + 1].translated = "Yo."
    /\ play_structure[indices_in_chunk[2] + 1].translated = PLACEHOLDER

\* C5: when the call for a chunk fails (an exception, a blocked response or
\* an empty one), every element of the chunk gets one and the same error
\* sentinel, and none keeps an empty translated value.
C5_ErrorOnEveryElement ==
    [][TranslateStep /\ ~translation_successful(response') =>
          \E message \in {play_structure'[indices_in_chunk[1] + 1].translated} :
              /\ message \notin {"", None}
              /\ startswith(message, "[Translation ")
              /\ \A k \in 1..Len(indices_in_chunk) :
                     play_structure'[indices_in_chunk[k] + 1].translated = message]_vars

\* The call for a chunk of two lines raised, and both lines carry the error.
C5_Witness ==
    /\ pc = "loop"
    /\ response.exc = "DeadlineExceeded"
    /\ Len(indices_in_chunk) = 2
    /\ \A k \in 1..2 :
           play_structure[indices_in_chunk[k] + 1].translated
               = "[Translation Error: DeadlineExceeded]"

\* C6: in a run resumed from a checkpoint, an element whose translated value
\* was non-empty in the checkpoint is in no chunk and keeps that value; and
\* at the end of the run no more elements need translation than at its start.
C6_ResumeSkipsTranslated ==
    resumed =>
        /\ Len(play_structure) = Len(loaded)
        /\ \A i \in 1..Len(loaded) :
               loaded[i].translated \notin {"", None} =>
                   /\ play_structure[i] = loaded[i]
                   /\ TimesSubmitted(i - 1) = 0
                   /\ pc = "call" => i - 1 \notin SeqRange(indices_in_chunk)
        /\ pc = "done" =>
               Cardinality(NeedingIndices(play_structure))
                   <= Cardinality(NeedingIndices(loaded))

\* The long play's run was interrupted after the periodic checkpoint; the
\* resumed run submitted the one chunk that was left, and ended.
C6_Witness ==
    /\ pc = "done"
    /\ resumed
    /\ file = LongFile
    /\ chunks = <<<<CHECKPOINT_INTERVAL + 1, CHECKPOINT_INTERVAL + 2>>>>
    /\ loaded[CHECKPOINT_INTERVAL + 1].translated = "Yo."

\* C7: when a translation pass has finished, the saved checkpoint is the
\* in-memory element sequence, error sentinels included.
C7_CheckpointCurrentAtEnd ==
    pc = "done" => checkpoint.exists /\ checkpoint.data = play_structure

\* C8: a failed call leaves the loop running, at the element after the
\* chunk; and when the pass ends, every element that needed translation when
\* it began has been submitted in exactly one call.
C8_FailureDoesNotEndPass ==
    /\ [][TranslateStep /\ ~translation_successful(response') =>
            pc' = "loop" /\ index' = next_index_after_chunk]_vars
    /\ [](pc = "done" => \A i \in NeedingIndices(loaded) : TimesSubmitted(i) = 1)

\* A pass ended in which a call failed and a later chunk was translated.
C8_Witness ==
    /\ pc = "done"
    /\ api_errors = 1
    /\ \E a, b \in 1..Len(play_structure) :
           /\ a < b
           /\ play_structure[a].translated = "[Translation Error: DeadlineExceeded]"
           /\ play_structure[b].translated = "Yo."

(***************************************************************************)
(* What is never translated, and the failures before the loop.             *)
(***************************************************************************)
NeverTranslated == {"unknown", "heading", "scene_marker", "speaker"}

\* C11: an element of kind unknown, heading, scene_marker or speaker is in no
\* chunk submitted for translation, and its translated field is never
\* written: it holds None in the list and in every checkpoint.  An unknown
\* element makes no part of the HTML and no flowable of the story, and the
\* HTML generated is the one of the list without its unknown elements.
C11_NeverTranslatedKinds ==
    /\ \A i \in 1..Len(play_structure) :
           play_structure[i].type \in NeverTranslated
               => play_structure[i].translated = None
    /\ \A i \in 1..Len(checkpoint.data) :
           checkpoint.data[i].type \in NeverTranslated
               => checkpoint.data[i].translated = None
    /\ pc = "call" =>
           \A k \in 1..Len(indices_in_chunk) :
               play_structure[indices_in_chunk[k] + 1].type \notin NeverTranslated
    /\ \A c \in 1..Len(chunks) : \A k \in 1..Len(chunks[c]) :
           play_structure[chunks[c][k] + 1].type \notin NeverTranslated
    /\ \A i \in 1..Len(play_structure) :
           play_structure[i].type = "unknown"
               => /\ html_of_element(play_structure[i]) = <<>>
                  /\ flowables_of_element(play_structure, i - 1) = <<>>
    /\ pc = "rendered" =>
           html_parts = create_pdf_weasyprint(
                            SelectSeq(play_structure,
                                      LAMBDA e : e.type # "unknown"))

\* A play with an unknown line, a speaker and a dialogue line was translated
\* and rendered.
C11_Witness ==
    /\ pc = "rendered"
    /\ chunks # <<>>
    /\ \E i \in 1..Len(play_structure) : play_structure[i].type = "unknown"
    /\ \E i \in 1..Len(play_structure) : play_structure[i].type = "speaker"
    /\ html_parts # <<>>

C13_CorruptCheckpointIsNoCheckpoint ==
    /\ [][pc = "start" /\ checkpoint.exists /\ ~checkpoint.loadable
             => /\ pc' = "parse"
                /\ ~resumed'
                /\ play_structure' = <<>>
                /\ line_num' = 0
                /\ current_speaker' = None
                /\ checkpoint' = checkpoint]_vars
    /\ [][pc = "returned" /\ result # <<>>
             => /\ pc' = "loop"
                /\ play_structure' = result
                /\ ~resumed'
                /\ index' = 0]_vars

\* With a corrupt checkpoint file in place, the source file has been parsed
\* afresh into elements.
C13_Witness ==
    /\ pc = "returned"
    /\ checkpoint = CorruptCheckpoint
    /\ result # <<>>

(***************************************************************************)
(* The sentinel values, from the loop to the renderers.                    *)
(***************************************************************************)
\* What create_pdf_weasyprint takes a translated value for.
HtmlClass(raw) ==
    IF is_placeholder_translation(raw) THEN "placeholder"
    ELSE IF is_error_translation(raw) THEN "error"
    ELSE "genuine"

\* What create_side_by_side_pdf takes a translated value for: it tests for
\* the error prefix only.
StoryClass(raw) ==
    IF trans_style(raw) = "ErrorText" THEN "error" ELSE "genuine"

\* C14: the value stored on the first element of a chunk after a successful
\* call is taken by both renderers for genuine text, whatever text the
\* service returned; the placeholder stored on the chunk's other elements is
\* taken for the placeholder, and the error sentinel stored after a failed
\* call is taken for an error.
C14_SentinelsDistinguishable ==
    [][TranslateStep =>
          LET n == Len(indices_in_chunk)
              stored(k) == play_structure'[indices_in_chunk[k] + 1].translated
          IN  IF translation_successful(response')
              THEN /\ HtmlClass(stored(1)) = "genuine"
                   /\ StoryClass(stored(1)) = "genuine"
                   /\ \A k \in 2..n : /\ HtmlClass(stored(k)) = "placeholder"
                                      /\ StoryClass(stored(k)) # "genuine"
              ELSE \A k \in 1..n : /\ HtmlClass(stored(k)) = "error"
                                   /\ StoryClass(stored(k)) = "error"]_vars

(***************************************************************************)
(* The renderers' claims, checked under SpecRender.                        *)
(***************************************************************************)
\* The paragraphs of a story, in order.
RECURSIVE StoryParagraphs(_)
StoryParagraphs(st) ==
    IF st = <<>> THEN <<>>
    ELSE (IF Head(st).table_data = <<>> THEN <<>> ELSE Head(st).table_data[1])
         \o StoryParagraphs(Tail(st))

IsPlaceholderElement(element) ==
    element.type = "dialogue" /\ element.translated = PLACEHOLDER

\* C15: an element that holds the placeholder is rendered, by either
\* renderer, as its original text beside an empty translated cell, and the
\* placeholder string is the text of no part of the HTML and of no paragraph
\* of the story.
C15_PlaceholderCellEmpty ==
    /\ pc = "rendered" =>
          /\ \A k \in 1..Len(html_parts) : html_parts[k].text # PLACEHOLDER
          /\ \A i \in 1..Len(play_structure) :
                IsPlaceholderElement(play_structure[i]) =>
                    html_of_element(play_structure[i])
                      = <<Part("div", "dialogue-pair", None),
                          Part("div", "col-left", None),
                          Part("p", None, html_escape(play_structure[i].original)),
                          Part("/div", None, None),
                          Part("div", "col-right", None),
                          Part("p", "placeholder", "&nbsp;"),
                          Part("/div", None, None),
                          Part("/div", None, None)>>
    /\ pc = "built" =>
          /\ \A k \in 1..Len(StoryParagraphs(story)) :
                StoryParagraphs(story)[k].text # PLACEHOLDER
          /\ \A i \in 1..Len(play_structure) :
                IsPlaceholderElement(play_structure[i]) =>
                    flowables_of_element(play_structure, i - 1)[1].table_data
                      = <<<<Paragraph(play_structure[i].original, "OriginalText"),
                            Paragraph("", "TranslatedText")>>>>

IsErrorElement(element) ==
    /\ element.type \in {"dialogue", "stage_direction"}
    /\ element.translated \in ErrorSentinels

IsGenuineElement(element) ==
    /\ element.type \in {"dialogue", "stage_direction"}
    /\ element.translated \in GenuineTexts \cup {"He leaves."}

\* C16: an element that holds an error sentinel, dialogue or stage direction
\* alike, is rendered by either renderer with the error string as a text of
\* its own, in the error class (HTML) or the ErrorText style (story); and no
\* text of an element that holds a genuine translation is rendered so.
C16_ErrorShownDistinctly ==
    \A i \in 1..Len(play_structure) :
        LET element == play_structure[i]
            parts == html_of_element(element)
            cells == StoryParagraphs(flowables_of_element(play_structure, i - 1))
        IN  /\ pc = "rendered" /\ IsErrorElement(element) =>
                  \E k \in 1..Len(parts) :
                      parts[k] = Part("p", "error", html_escape(element.translated))
            /\ pc = "built" /\ IsErrorElement(element) =>
                  \E k \in 1..Len(cells) :
                      cells[k] = Paragraph(element.translated, "ErrorText")
            /\ pc = "rendered" /\ IsGenuineElement(element) =>
                  \A k \in 1..Len(parts) : parts[k].class # "error"
            /\ pc = "built" /\ IsGenuineElement(element) =>
                  \A k \in 1..Len(cells) : cells[k].style # "ErrorText"

RECURSIVE Concat(_)
Concat(strings) ==
    IF strings = <<>> THEN "" ELSE Head(strings) \o Concat(Tail(strings))

RECURSIVE RemoveWhitespace(_)
RemoveWhitespace(s) ==
    IF s = "" THEN ""
    ELSE (IF Ch(s, 1) \in Whitespace THEN "" ELSE Ch(s, 1))
         \o RemoveWhitespace(SubSeq(s, 2, Len(s)))

\* The texts of the parts from the k-th up to the closing tag.
RECURSIVE TextsUntilClose(_, _)
TextsUntilClose(parts, k) ==
    IF k > Len(parts) \/ parts[k].tag = "/div" THEN <<>>
    ELSE <<parts[k].text>> \o TextsUntilClose(parts, k + 1)

\* The texts of the paragraphs in the first column of class col.
ColumnTexts(parts, col) ==
    LET opened == {k \in 1..Len(parts) : parts[k] = Part("div", col, None)} IN
    TextsUntilClose(parts, (CHOOSE k \in opened : \A m \in opened : k <= m) + 1)

\* The segments of text a column shows: a paragraph of a non-breaking space
\* shows none.
Shown(texts) == SelectSeq(texts, LAMBDA t : t # "&nbsp;")

\* The texts of the k-th column of a dialogue's table, row by row.
TableColumn(table_data, k) ==
    [r \in 1..Len(table_data) |-> table_data[r][k].text]

MaxThreshold == 3

Thresholds == 1..MaxThreshold

Max(a, b) == IF a >= b THEN a ELSE b

\* ceil(a / b)
CeilDiv(a, b) == (a + b - 1) \div b

\* Segment i (from 0) of N of the string s, by the proportional formula.
Segment(s, i, N) ==
    SubSeq(s, (Len(s) * i) \div N + 1, (Len(s) * (i + 1)) \div N)

\* The rows the proportional split makes of a pair of texts.
ProportionalRows(original, translated, threshold) ==
    IF Len(original) <= threshold /\ Len(translated) <= threshold
    THEN <<[left |-> original, right |-> translated]>>
    ELSE LET N == CeilDiv(Max(Len(original), Len(translated)), threshold) IN
         [r \in 1..N |-> [left |-> Segment(original, r - 1, N),
                          right |-> Segment(translated, r - 1, N)]]

\* The rows of a dialogue's table in the story.
StoryRows(table_data) ==
    [r \in 1..Len(table_data) |->
        [left |-> table_data[r][1].text, right |-> table_data[r][2].text]]

\* The positions of the parts that open a dialogue pair.
PairStarts(parts) ==
    {k \in 1..Len(parts) : parts[k] = Part("div", "dialogue-pair", None)}

C19_WrittenOnceNonEmpty ==
    /\ [][TranslateStep =>
             /\ \A k \in 1..Len(indices_in_chunk) :
                    /\ Falsy(play_structure[indices_in_chunk[k] + 1].translated)
                    /\ ~Falsy(play_structure'[indices_in_chunk[k] + 1].translated)
             /\ \A j \in 0..(Len(play_structure) - 1) :
                    j \notin SeqRange(indices_in_chunk)
                        => play_structure'[j + 1] = play_structure[j + 1]]_vars
    /\ [][(pc \in {"loop", "call"}) /\ pc' # "start" /\ ~TranslateStep
             => play_structure' = play_structure]_vars
    /\ [](pc = "done" =>
             /\ \A i \in NeedingIndices(loaded) : TimesSubmitted(i) = 1
             /\ \A i \in TranslatableIndices(play_structure) :
                    ~Falsy(play_structure[i + 1].translated))

\* C20: the cursor strictly increases at every iteration of the loop: an
\* iteration without translation moves it by one; a chunk begins at the
\* cursor, holds consecutive indices, and after its handling the cursor is
\* the index just after the chunk's last element, whatever the call's
\* outcome.  Every index in a submitted chunk is below the cursor, so that
\* no index is in two chunks or twice in one.  And the loop terminates: a
\* run in the loop reaches the loop's end.
C20_CursorAdvancesAndLoopEnds ==
    /\ [][pc = "loop" /\ pc' = "loop" => index' = index + 1]_vars
    /\ [][pc = "loop" /\ pc' = "call" =>
             /\ index' = index
             /\ Len(indices_in_chunk') >= 1
             /\ \A k \in 1..Len(indices_in_chunk') :
                    indices_in_chunk'[k] = index + k - 1
             /\ next_index_after_chunk' = index + Len(indices_in_chunk')]_vars
    /\ [][TranslateStep =>
             /\ index' = next_index_after_chunk
             /\ index' > index
             /\ index' <= Len(play_structure)]_vars
    /\ []((pc \in {"loop", "call", "done"}) =>
             /\ \A c \in 1..Len(chunks) : \A k \in 1..Len(chunks[c]) :
                    chunks[c][k] < index
             /\ \A c \in 1..Len(chunks) :
                    Cardinality(SeqRange(chunks[c])) = Len(chunks[c])
             /\ \A a, b \in 1..Len(chunks) :
                    a # b => SeqRange(chunks[a]) \cap SeqRange(chunks[b]) = {})
    /\ ((pc \in {"loop", "call"}) ~> (pc = "done"))

\* The loop over the long play ended although one of its calls failed.
C20_Witness ==
    /\ pc = "done"
    /\ file = LongFile
    /\ api_errors = 1
    /\ Len(chunks) = CHECKPOINT_INTERVAL + 1
    /\ index = Len(play_structure)


\* A translated value that is a genuine translation: not empty, not the
\* placeholder, not marked as an error.
GenuineTranslation(t) ==
    /\ ~Falsy(t)
    /\ t # PLACEHOLDER
    /\ ~startswith(t, "[Translation")

\* Every placeholder of the sequence ps is on a dialogue element that comes
\* right after a dialogue element holding the placeholder or a genuine
\* translation.
PlaceholdersHeaded(ps) ==
    \A k \in 1..Len(ps) :
        ps[k].translated = PLACEHOLDER =>
            /\ ps[k].type = "dialogue"
            /\ k > 1
            /\ ps[k - 1].type = "dialogue"
            /\ \/ ps[k - 1].translated = PLACEHOLDER
               \/ GenuineTranslation(ps[k - 1].translated)

\* C26: in every state of the loop, over any number of interrupted and
\* resumed runs, and in every saved checkpoint, each element that holds the
\* placeholder is a dialogue element right after a dialogue element that
\* holds the placeholder or a non-empty genuine translation: every run of
\* placeholders is headed by the element carrying the chunk's text, never by
\* an empty or error-marked one.
C26_PlaceholdersHeadedByText ==
    /\ pc \in {"loop", "call", "done", "rendered"} =>
           PlaceholdersHeaded(play_structure)
    /\ checkpoint.loadable => PlaceholdersHeaded(checkpoint.data)

\* The strings a failed call leaves on the elements of its chunk.
ErrorMessages == {error_message(r) : r \in {q \in Responses : ~translation_successful(q)}}

\* The chunk (a sequence of indices from 0) was translated in this run: its
\* first element holds what the service answered, not a failure's message.
SuccessfulChunk(c) == play_structure[c[1] + 1].translated \notin ErrorMessages

\* The saved checkpoint holds what the chunk's elements hold now.
InCheckpoint(c) ==
    /\ checkpoint.loadable
    /\ Len(checkpoint.data) = Len(play_structure)
    /\ \A k \in 1..Len(c) :
           checkpoint.data[c[k] + 1].translated
               = play_structure[c[k] + 1].translated

\* The chunks translated in this run that the saved checkpoint does not hold.
MissingFromCheckpoint ==
    {n \in 1..Len(chunks) :
        SuccessfulChunk(chunks[n]) /\ ~InCheckpoint(chunks[n])}

=============================================================================
